---- MODULE Spec2Model ----
(***************************************************************************)
(* Model of 4-soc/scripts/vga_render.py: VCDParser.parse_header and        *)
(* VCDParser.extract_frames, which rebuild VGA frames from a VCD trace.    *)
(*                                                                         *)
(* Text.  A line of the trace is a sequence of symbols.  A symbol is one   *)
(* character ("0", "1", "b", "-", "_", " ", ...) or a word the code only   *)
(* ever tests as a whole ("$var", "$enddefinitions", "io_vga_", "hsync").  *)
(* strip, split, startswith, "in" and int(s, 2) are computed on these      *)
(* sequences the way Python computes them on strings.                      *)
(*                                                                         *)
(* File.  The code opens the file twice: parse_header reads up to the      *)
(* first line that CONTAINS $enddefinitions, extract_frames skips up to    *)
(* the first line that STARTS WITH it and replays the rest.  Lines are     *)
(* drawn when they are first read; of the lines parse_header consumed the  *)
(* second pass only needs the one it stopped on (none of the others        *)
(* contains the marker), which unread keeps until the second pass has read *)
(* it.                                                                     *)
(***************************************************************************)
EXTENDS Integers, Sequences, FiniteSets, TLC

\* Largest pixel ceiling (max_pixels) a run is started with.
MaxCeiling == 2

----------------------------------------------------------------------------
\* Python string helpers on symbol sequences

IsSpace(ch) == ch = " "

RECURSIVE lstrip(_)
lstrip(s) == IF s # <<>> /\ IsSpace(Head(s)) THEN lstrip(Tail(s)) ELSE s

RECURSIVE rstrip(_)
rstrip(s) ==
    IF s # <<>> /\ IsSpace(s[Len(s)]) THEN rstrip(SubSeq(s, 1, Len(s) - 1)) ELSE s

\* str.strip()
strip(s) == rstrip(lstrip(s))

\* str.startswith(p)
startswith(s, p) == Len(s) >= Len(p) /\ SubSeq(s, 1, Len(p)) = p

\* p in s  (substring test)
contains(s, p) ==
    \E i \in 1..(Len(s) - Len(p) + 1) : SubSeq(s, i, i + Len(p) - 1) = p

RECURSIVE TokenLen(_)
TokenLen(s) == IF s = <<>> \/ IsSpace(Head(s)) THEN 0 ELSE 1 + TokenLen(Tail(s))

\* str.split(): the maximal runs of non-whitespace symbols, in order
RECURSIVE split(_)
split(s) ==
    LET t == lstrip(s)
    IN  IF t = <<>> THEN <<>>
        ELSE LET n == TokenLen(t)
             IN  <<SubSeq(t, 1, n)>> \o split(SubSeq(t, n + 1, Len(t)))

\* Python's None (dict.get of an absent key); falsy, and equal to no token
None == <<>>

IsBit(ch) == ch \in {"0", "1"}

\* digits of int(s, 2) after sign and prefix: binary digits, single
\* underscores allowed between digits only
RECURSIVE ValidDigits(_)
ValidDigits(d) ==
    IF d = <<>> THEN FALSE
    ELSE IF ~IsBit(Head(d)) THEN FALSE
    ELSE IF Len(d) = 1 THEN TRUE
    ELSE IF d[2] = "_" THEN ValidDigits(SubSeq(d, 3, Len(d)))
    ELSE ValidDigits(Tail(d))

RECURSIVE DigitsValue(_, _)
DigitsValue(d, acc) ==
    IF d = <<>> THEN acc
    ELSE IF Head(d) = "_" THEN DigitsValue(Tail(d), acc)
    ELSE DigitsValue(Tail(d), 2 * acc + (IF Head(d) = "1" THEN 1 ELSE 0))

\* the digits of a literal of int(s, 2): after an optional sign and an
\* optional 0b/0B prefix (an underscore may follow the prefix)
IntDigits(s) ==
    LET signed == s # <<>> /\ Head(s) \in {"+", "-"}
        body   == IF signed THEN Tail(s) ELSE s
        prefix == Len(body) >= 2 /\ body[1] = "0" /\ body[2] \in {"b", "B"}
        rest   == IF prefix THEN SubSeq(body, 3, Len(body)) ELSE body
    IN  IF prefix /\ rest # <<>> /\ Head(rest) = "_" THEN Tail(rest) ELSE rest

\* int(s, 2) raises ValueError
int2_raises(s) == ~ValidDigits(IntDigits(s))

\* int(s, 2), when it does not raise
int2(s) ==
    IF s # <<>> /\ Head(s) = "-"
    THEN 0 - DigitsValue(IntDigits(s), 0)
    ELSE DigitsValue(IntDigits(s), 0)

\* mutant: the empty bit string is handed to int(), which rejects it
DecodeRaises_EmptyToo(value_str) == value_str = <<>> \/ int2_raises(value_str)

\* "int(value_str, 2) if value_str else 0" raises ValueError
DecodeRaises(value_str) == value_str # <<>> /\ int2_raises(value_str)

\* int(value_str, 2) if value_str else 0
DecodeBits(value_str) == IF value_str # <<>> THEN int2(value_str) ELSE 0

\* dictionaries: functions on their key set
EmptyDict == [k \in {} |-> None]

\* d[k] = v
Put(d, k, v) == [j \in DOMAIN d \cup {k} |-> IF j = k THEN v ELSE d[j]]

\* d.get(k)
Get(d, k) == IF k \in DOMAIN d THEN d[k] ELSE None

----------------------------------------------------------------------------
\* The lines a trace is made of

EndDefs == <<"$enddefinitions">>

EOF == <<"<EOF>">>

NoLine == <<"<none>">>

SigName(role) == <<"io_vga_", role>>

\* $var wire 1 <id> <name> $end
Decl(id, name) ==
    <<"$var", " ", "wire", " ", "1", " ">> \o id \o <<" ">> \o name \o <<" ", "$end">>

MarkerLines ==
    { <<"$enddefinitions", " ", "$end">>,
      <<" ", "$enddefinitions", " ", "$end">>,
      <<"$comment", " ", "$enddefinitions", " ", "$end">> }

HeaderLines ==
    { Decl(<<"h">>, SigName("hsync")),
      <<" ", " ">> \o Decl(<<"v">>, SigName("vsync")),
      Decl(<<"a">>, SigName("activevideo")),
      Decl(<<"c">>, SigName("rrggbb")),
      Decl(<<"x">>, SigName("x_pos")),
      Decl(<<"y">>, SigName("y_pos")),
      Decl(<<"u">>, <<"vga_", "hsync">>),
      Decl(<<"u">>, <<"vga_", "rrggbb">>),
      <<"$var", " ", "wire", " ", "1", " ", "v">>,
      <<"$scope", " ", "module", " ", "top", " ", "$end">> }
    \cup MarkerLines

\* a declaration placed after the end-of-header marker line
LateDecl == Decl(<<"u">>, SigName("vsync"))

BitLine(value, id) == <<value>> \o id

VecLine(bits, id) == <<"b">> \o bits \o <<" ">> \o id

BodyLines ==
    { BitLine("0", <<"v">>), BitLine("1", <<"v">>),
      BitLine("0", <<"a">>), <<" ">> \o BitLine("1", <<"a">>),
      BitLine("0", <<"h">>), BitLine("1", <<"u">>),
      VecLine(<<>>, <<"c">>), VecLine(<<"1">>, <<"c">>),
      VecLine(<<"x">>, <<"c">>), VecLine(<<"+", "1">>, <<"c">>),
      VecLine(<<>>, <<"x">>), VecLine(<<"-", "1">>, <<"x">>),
      VecLine(<<>>, <<"y">>), VecLine(<<"0", "b", "_", "1">>, <<"y">>),
      VecLine(<<"1">>, <<"u">>), <<"b", "1">>,
      <<"#", "1">>, <<>>, <<"$end">> }

\* what may follow the line parse_header stopped on
PostHeaderLines == BodyLines \cup MarkerLines \cup {LateDecl}

----------------------------------------------------------------------------
\* State

VARIABLES
    pc,            \* where the call extract_frames(max_pixels) stands
    max_pixels,    \* its argument
    signal_ids,    \* self.signal_ids: signal name -> identifier
    signals,       \* self.signals: identifier -> {name, value}
    unread,        \* the file as far as known and not yet read again: the line
                   \* parse_header stopped on, EOF if it read to the end of
                   \* the file, NoLine once extract_frames has read past it
    line,          \* the line last read (as the loop body last bound it)
    frames, current_frame, pixel_count, in_frame, prev_vsync,
    current_state, \* the last known value of each signal
    stderr,        \* what was printed to sys.stderr
    returned,      \* the value extract_frames returned (once pc = "done")
    rrggbb_in,     \* the argument of the call of rrggbb_to_rgb under way
    rgb_out        \* what that call returned, <<>> until it returns

vars == <<pc, max_pixels, signal_ids, signals, unread, line, frames,
          current_frame, pixel_count, in_frame, prev_vsync, current_state,
          stderr, returned, rrggbb_in, rgb_out>>

locals == <<frames, current_frame, pixel_count, in_frame, prev_vsync,
            current_state>>

\* current_state as created at lines 77-84
InitialState ==
    [hsync |-> "1", vsync |-> "1", active |-> "0", color |-> "000000",
     x |-> 0, y |-> 0]

Init ==
    /\ pc = "parse_header"
    /\ max_pixels \in 0..MaxCeiling
    /\ signal_ids = EmptyDict
    /\ signals = EmptyDict
    /\ unread = NoLine
    /\ line = <<>>
    /\ frames = <<>>
    /\ current_frame = EmptyDict
    /\ pixel_count = 0
    /\ in_frame = FALSE
    /\ prev_vsync = "1"
    /\ current_state = InitialState
    /\ stderr = <<>>
    /\ returned = <<>>
    /\ rrggbb_in = 0
    /\ rgb_out = <<>>

----------------------------------------------------------------------------
\* parse_header

\* line 27: the line is taken as a declaration
IsVarLine(l) == startswith(l, <<"$var">>) \/ startswith(strip(l), <<"$var">>)

\* mutant: internal vga_ signals are kept too
IsTopLevel_AnyVga(sig_name) == contains(sig_name, <<"vga_">>) \/ contains(sig_name, <<"io_vga_">>)

\* line 36: only top-level io_vga signals are kept
IsTopLevel(sig_name) == startswith(sig_name, <<"io_vga_">>)

\* line 39: the line ends the header for parse_header
EndsHeader(l) == contains(l, EndDefs)

\* lines 26-40, one iteration of the loop on file line l
ParseHeaderLine(l) ==
    LET l1    == IF IsVarLine(l) THEN strip(l) ELSE l
        parts == split(l1)
        keep  == IsVarLine(l) /\ Len(parts) >= 5 /\ IsTopLevel(parts[5])
    IN  /\ pc = "parse_header"
        /\ line' = l1
        /\ signal_ids' = IF keep THEN Put(signal_ids, parts[5], parts[4])
                         ELSE signal_ids
        /\ signals' = IF keep
                      THEN Put(signals, parts[4], [name |-> parts[5], value |-> "0"])
                      ELSE signals
        /\ IF EndsHeader(l1)
           THEN pc' = "lookup" /\ unread' = l
           ELSE pc' = "parse_header" /\ unread' = unread
        /\ UNCHANGED <<rrggbb_in, rgb_out, max_pixels, locals, stderr, returned>>

\* line 26: the file ends before any line holds the marker
ParseHeaderEOF ==
    /\ pc = "parse_header"
    /\ pc' = "lookup"
    /\ unread' = EOF
    /\ UNCHANGED <<rrggbb_in, rgb_out, max_pixels, signal_ids, signals, line, locals, stderr, returned>>

----------------------------------------------------------------------------
\* extract_frames

\* lines 48-53 (signal_ids no longer changes once parse_header is over)
hsync_id  == Get(signal_ids, SigName("hsync"))
vsync_id  == Get(signal_ids, SigName("vsync"))
active_id == Get(signal_ids, SigName("activevideo"))
color_id  == Get(signal_ids, SigName("rrggbb"))
x_id      == Get(signal_ids, SigName("x_pos"))
y_id      == Get(signal_ids, SigName("y_pos"))

\* truth value of a str-or-None: None and "" are false
Truthy(v) == v # <<>>

\* mutant: the coordinate counters are demanded too
MissingSignals_NeedsXY ==
    ~(/\ Truthy(hsync_id) /\ Truthy(vsync_id) /\ Truthy(active_id)
      /\ Truthy(color_id) /\ Truthy(x_id) /\ Truthy(y_id))

\* mutant: any() in place of all()
MissingSignals_Any ==
    ~(Truthy(hsync_id) \/ Truthy(vsync_id) \/ Truthy(active_id) \/ Truthy(color_id))

\* line 55: not all([hsync_id, vsync_id, active_id, color_id])
MissingSignals ==
    ~(Truthy(hsync_id) /\ Truthy(vsync_id) /\ Truthy(active_id) /\ Truthy(color_id))

\* lines 48-68
Lookup ==
    /\ pc = "lookup"
    /\ IF MissingSignals
       THEN /\ stderr' = << <<"Error: Missing VGA signals in VCD file">>,
                            <<"Found signals:", DOMAIN signal_ids>> >>
            /\ returned' = <<>>
            /\ pc' = "done"
            /\ UNCHANGED locals
       ELSE /\ frames' = <<>>
            /\ current_frame' = EmptyDict
            /\ pixel_count' = 0
            /\ in_frame' = FALSE
            /\ prev_vsync' = "1"
            /\ pc' = "skip_header"
            /\ UNCHANGED <<current_state, stderr, returned>>
    /\ UNCHANGED <<rrggbb_in, rgb_out, max_pixels, signal_ids, signals, unread, line>>

\* line 73: the line ends the header for extract_frames
SkipStops(l) == startswith(l, EndDefs)

\* lines 72-74 over the lines parse_header consumed: only the last of them
\* can hold the marker.  The snapshot is created (77-84) when the loop is left.
SkipHeader ==
    /\ pc = "skip_header"
    /\ IF unread = EOF
       THEN pc' = "final" /\ UNCHANGED line
       ELSE /\ line' = unread
            /\ pc' = IF SkipStops(unread) THEN "replay" ELSE "skip_body"
    /\ current_state' = IF unread = EOF \/ SkipStops(unread)
                        THEN InitialState ELSE current_state
    /\ unread' = NoLine
    /\ UNCHANGED <<rrggbb_in, rgb_out, max_pixels, signal_ids, signals, frames, current_frame,
                   pixel_count, in_frame, prev_vsync, stderr, returned>>

\* lines 72-74 on a line l that parse_header never read
SkipLine(l) ==
    /\ pc = "skip_body"
    /\ line' = l
    /\ IF SkipStops(l)
       THEN pc' = "replay" /\ current_state' = InitialState
       ELSE pc' = "skip_body" /\ UNCHANGED current_state
    /\ UNCHANGED <<rrggbb_in, rgb_out, max_pixels, signal_ids, signals, unread, frames,
                   current_frame, pixel_count, in_frame, prev_vsync, stderr,
                   returned>>

\* line 72: the file ends inside the skip loop; the replay loop reads nothing
SkipEOF ==
    /\ pc = "skip_body"
    /\ pc' = "final"
    /\ current_state' = InitialState
    /\ UNCHANGED <<rrggbb_in, rgb_out, max_pixels, signal_ids, signals, unread, line, frames,
                   current_frame, pixel_count, in_frame, prev_vsync, stderr,
                   returned>>

\* line 96: a single-bit change "<bit><identifier>"
IsSingleBit(s) == Len(s) > 1 /\ s[1] \in {"0", "1"}

\* line 116: a multi-bit change "b<bits> <identifier>"
IsVector(s) == startswith(s, <<"b">>)

\* mutant: the boundary taken on the falling edge
IsFrameBoundary_Falling(prev, value, frame) ==
    prev = "1" /\ value = "0" /\ DOMAIN frame # {}

\* mutant: the boundary taken whether or not the frame holds a pixel
IsFrameBoundary_AnyFrame(prev, value, frame) == prev = "0" /\ value = "1"

\* line 102: the vsync event is a frame boundary
IsFrameBoundary(prev, value, frame) ==
    prev = "0" /\ value = "1" /\ DOMAIN frame # {}

\* mutant: the colour bus is sampled during blanking too
IsSampled_Always(sig_id, active) == sig_id = color_id

\* line 123: the colour-bus change is sampled
IsSampled(sig_id, active) == sig_id = color_id /\ active = "1"

\* mutant: a coordinate already written keeps its first value
StorePixel_KeepFirst(frame, x, y, color_val) ==
    IF <<x, y>> \in DOMAIN frame THEN frame ELSE Put(frame, <<x, y>>, color_val)

\* line 131: current_frame[(x, y)] = color_val
StorePixel(frame, x, y, color_val) == Put(frame, <<x, y>>, color_val)

\* mutant: the limit test off by one
ReachedLimit_Greater(count, limit) == count > limit

\* line 134: the pixel limit is reached
ReachedLimit(count, limit) == count >= limit

\* mutant: the frame is put in front of the output
Sealed_Prepend(fs, frame) == IF DOMAIN frame # {} THEN <<frame>> \o fs ELSE fs

\* mutant: the pending frame is dropped
Sealed_Never(fs, frame) == fs

\* lines 135-136 and 160-161: the frame is appended if it holds a pixel
Sealed(fs, frame) == IF DOMAIN frame # {} THEN Append(fs, frame) ELSE fs

\* mutant: the pixel counter starts again at every frame boundary
OnVsync_ResetsCount(value) ==
    /\ IF IsFrameBoundary(prev_vsync, value, current_frame)
       THEN /\ frames' = Append(frames, current_frame)
            /\ current_frame' = EmptyDict
            /\ in_frame' = FALSE
            /\ pixel_count' = 0
       ELSE UNCHANGED <<frames, current_frame, in_frame, pixel_count>>
    /\ prev_vsync' = value
    /\ current_state' = [current_state EXCEPT !.vsync = value]
    /\ UNCHANGED <<pc, returned>>

\* lines 100-111
OnVsync(value) ==
    /\ IF IsFrameBoundary(prev_vsync, value, current_frame)
       THEN /\ frames' = Append(frames, current_frame)
            /\ current_frame' = EmptyDict
            /\ in_frame' = FALSE
       ELSE UNCHANGED <<frames, current_frame, in_frame>>
    /\ prev_vsync' = value
    /\ current_state' = [current_state EXCEPT !.vsync = value]
    /\ UNCHANGED <<pc, pixel_count, returned>>

\* lines 113-114
OnActive(value) ==
    /\ current_state' = [current_state EXCEPT !.active = value]
    /\ UNCHANGED <<pc, frames, current_frame, pixel_count, in_frame,
                   prev_vsync, returned>>

\* mutant: the ValueError of a malformed colour value is not caught
OnColour_Uncaught(value_str) ==
    IF DecodeRaises(value_str)
    THEN pc' = "done" /\ UNCHANGED <<locals, returned>>
    ELSE LET frame == StorePixel(current_frame, current_state.x,
                                 current_state.y, DecodeBits(value_str))
         IN  /\ current_frame' = frame
             /\ pixel_count' = pixel_count + 1
             /\ IF ReachedLimit(pixel_count + 1, max_pixels)
                THEN /\ frames' = Sealed(frames, frame)
                     /\ returned' = Sealed(frames, frame)
                     /\ pc' = "done"
                ELSE UNCHANGED <<pc, frames, returned>>
             /\ UNCHANGED <<in_frame, prev_vsync, current_state>>

\* lines 123-141
OnColour(value_str) ==
    IF DecodeRaises(value_str)
    THEN UNCHANGED <<pc, locals, returned>>
    ELSE LET frame == StorePixel(current_frame, current_state.x,
                                 current_state.y, DecodeBits(value_str))
         IN  /\ current_frame' = frame
             /\ pixel_count' = pixel_count + 1
             /\ IF ReachedLimit(pixel_count + 1, max_pixels)
                THEN /\ frames' = Sealed(frames, frame)
                     /\ returned' = Sealed(frames, frame)
                     /\ pc' = "done"
                ELSE UNCHANGED <<pc, frames, returned>>
             /\ UNCHANGED <<in_frame, prev_vsync, current_state>>

\* lines 143-157: field is "x" or "y"
OnCoordinate(field, value_str) ==
    /\ current_state' =
           IF DecodeRaises(value_str) THEN current_state
           ELSE [current_state EXCEPT ![field] = DecodeBits(value_str)]
    /\ UNCHANGED <<pc, frames, current_frame, pixel_count, in_frame,
                   prev_vsync, returned>>

\* mutant: every single-bit change that is not vsync is taken as active-video
OnSingleBit_ElseActive(s) ==
    LET sig_id == strip(Tail(s))
        value  == s[1]
    IN  IF sig_id = vsync_id THEN OnVsync(value)
        ELSE OnActive(value)

\* lines 96-114 on the stripped line s
OnSingleBit(s) ==
    LET sig_id == strip(Tail(s))
        value  == s[1]
    IN  IF sig_id = vsync_id THEN OnVsync(value)
        ELSE IF sig_id = active_id THEN OnActive(value)
        ELSE UNCHANGED <<pc, locals, returned>>

\* lines 116-157 on the stripped line s
OnVector(s) ==
    LET parts == split(s)
    IN  IF Len(parts) >= 2
        THEN LET value_str == Tail(parts[1])
                 sig_id    == parts[2]
             IN  IF IsSampled(sig_id, current_state.active)
                 THEN OnColour(value_str)
                 ELSE IF sig_id = x_id THEN OnCoordinate("x", value_str)
                 ELSE IF sig_id = y_id THEN OnCoordinate("y", value_str)
                 ELSE UNCHANGED <<pc, locals, returned>>
        ELSE UNCHANGED <<pc, locals, returned>>

\* lines 86-157, one iteration of the replay loop on file line l
ProcessLine(l) ==
    LET s == strip(l)
    IN  /\ pc = "replay"
        /\ line' = s
        /\ IF s = <<>> \/ startswith(s, <<"#">>)
           THEN UNCHANGED <<pc, locals, returned>>
           ELSE IF IsSingleBit(s) THEN OnSingleBit(s)
           ELSE IF IsVector(s) THEN OnVector(s)
           ELSE UNCHANGED <<pc, locals, returned>>
        /\ UNCHANGED <<rrggbb_in, rgb_out, max_pixels, signal_ids, signals, unread, stderr>>

\* line 86: the file has no further line
ReadEOF ==
    /\ pc = "replay"
    /\ pc' = "final"
    /\ UNCHANGED <<rrggbb_in, rgb_out, max_pixels, signal_ids, signals, unread, line, locals,
                   stderr, returned>>

\* lines 159-164
Final ==
    /\ pc = "final"
    /\ frames' = Sealed(frames, current_frame)
    /\ returned' = Sealed(frames, current_frame)
    /\ pc' = "done"
    /\ UNCHANGED <<rrggbb_in, rgb_out, max_pixels, signal_ids, signals, unread, line,
                   current_frame, pixel_count, in_frame, prev_vsync,
                   current_state, stderr>>

Next ==
    \/ \E l \in HeaderLines : ParseHeaderLine(l)
    \/ ParseHeaderEOF
    \/ Lookup
    \/ SkipHeader
    \/ \E l \in PostHeaderLines : SkipLine(l)
    \/ SkipEOF
    \/ \E l \in PostHeaderLines : ProcessLine(l)
    \/ ReadEOF
    \/ Final

Spec == Init /\ [][Next]_vars

\* The trace is a finite file: each loop over its lines comes to the end of
\* the file unless it is left before, and straight-line code runs on.
FairSpec ==
    /\ Spec
    /\ WF_vars(ParseHeaderEOF)
    /\ WF_vars(Lookup)
    /\ WF_vars(SkipHeader)
    /\ WF_vars(SkipEOF)
    /\ WF_vars(ReadEOF)
    /\ WF_vars(Final)

----------------------------------------------------------------------------
\* rrggbb_to_rgb, called by the renderers on the colour value of each pixel

\* the values of a 6-bit colour bus
ColourValues == 0..63

\* v >> n
Shr(v, n) == v \div (2 ^ n)

\* v & 0x3
And3(v) == v % 4

\* mutant: the green field read from the red field's place
rrggbb_to_rgb_RedTwice(rrggbb) ==
    LET rr == And3(Shr(rrggbb, 4))
        gg == And3(Shr(rrggbb, 4))
        bb == And3(rrggbb)
    IN  <<(rr * 255) \div 3, (gg * 255) \div 3, (bb * 255) \div 3>>

\* lines 167-178
rrggbb_to_rgb(rrggbb) ==
    LET rr == And3(Shr(rrggbb, 4))
        gg == And3(Shr(rrggbb, 2))
        bb == And3(rrggbb)
        r  == (rr * 255) \div 3
        g  == (gg * 255) \div 3
        b  == (bb * 255) \div 3
    IN  <<r, g, b>>

\* a renderer is about to decode a colour value; no extraction is under way
InitDecode ==
    /\ pc = "render"
    /\ rrggbb_in \in ColourValues
    /\ rgb_out = <<>>
    /\ max_pixels = 0
    /\ signal_ids = EmptyDict
    /\ signals = EmptyDict
    /\ unread = NoLine
    /\ line = <<>>
    /\ frames = <<>>
    /\ current_frame = EmptyDict
    /\ pixel_count = 0
    /\ in_frame = FALSE
    /\ prev_vsync = "1"
    /\ current_state = InitialState
    /\ stderr = <<>>
    /\ returned = <<>>

\* r, g, b = rrggbb_to_rgb(color_val)
Decode ==
    /\ pc = "render"
    /\ rgb_out = <<>>
    /\ rgb_out' = rrggbb_to_rgb(rrggbb_in)
    /\ UNCHANGED <<pc, rrggbb_in, max_pixels, signal_ids, signals, unread, line,
                   locals, stderr, returned>>

\* the renderer's loop goes on to the next pixel, of colour value v
NextPixel(v) ==
    /\ pc = "render"
    /\ rgb_out # <<>>
    /\ rrggbb_in' = v
    /\ rgb_out' = <<>>
    /\ UNCHANGED <<pc, max_pixels, signal_ids, signals, unread, line, locals,
                   stderr, returned>>

NextDecode ==
    \/ Decode
    \/ \E v \in ColourValues : NextPixel(v)

SpecDecode == InitDecode /\ [][NextDecode]_vars

----------------------------------------------------------------------------
\* Vocabulary of the properties

MandatoryRoles == {"hsync", "vsync", "activevideo", "rrggbb"}

OptionalRoles == {"x_pos", "y_pos"}

NonEmpty(frame) == DOMAIN frame # {}

\* s is a single-bit change of the signal bound to id
IsBitFor(s, id) ==
    id # None /\ Len(s) > 1 /\ s[1] \in {"0", "1"} /\ strip(Tail(s)) = id

\* s is a multi-bit change of the signal bound to id
IsVecFor(s, id) ==
    id # None /\ s # <<>> /\ s[1] = "b" /\ Len(split(s)) >= 2 /\ split(s)[2] = id

\* the bit string of a multi-bit change
BitsOf(s) == Tail(split(s)[1])

\* the bit string holds a character other than 0 and 1
NonBinary(bits) == \E i \in 1..Len(bits) : bits[i] \notin {"0", "1"}

\* a step of the replay loop that processed the line now in line'
ReplayStep == pc = "replay" /\ pc' # "final"

\* a step of parse_header that read the line now in line'
ParseStep == pc = "parse_header" /\ unread' # EOF

----------------------------------------------------------------------------
C2_NoEmptyFrame ==
    /\ \A i \in 1..Len(frames) : NonEmpty(frames[i])
    /\ \A i \in 1..Len(returned) : NonEmpty(returned[i])

\* a vsync 1 event was processed before any sample: nothing was appended
C2_Witness ==
    /\ pc = "replay"
    /\ line = <<"1", "v">>
    /\ current_state.vsync = "1"
    /\ pixel_count = 0
    /\ frames = <<>>
    /\ ~NonEmpty(current_frame)

\* C3: last write wins.  A sample accepted at (x, y) leaves the current
\* frame with one entry for (x, y), holding that sample's value, and every
\* other entry as it was; the frame sealed in the same step is that frame.
C3_LastWriteWins ==
    [][ReplayStep /\ pixel_count' # pixel_count =>
          LET xy == <<current_state.x, current_state.y>>
              v  == DecodeBits(BitsOf(line'))
          IN  /\ DOMAIN current_frame' = DOMAIN current_frame \cup {xy}
              /\ current_frame'[xy] = v
              /\ \A p \in DOMAIN current_frame \ {xy} :
                     current_frame'[p] = current_frame[p]
              /\ pc' = "done" => returned'[Len(returned')] = current_frame']_vars

\* two samples were accepted into one frame that holds a single pixel
C3_Witness ==
    /\ pc = "done"
    /\ pixel_count = 2
    /\ Len(returned) = 1
    /\ Cardinality(DOMAIN returned[1]) = 1

\* C4: the sample at which the pixel counter reaches max_pixels seals the
\* current frame and returns at once: the result is fixed in that step and
\* no step follows the return.
C4_CeilingStops ==
    /\ [][ReplayStep /\ pixel_count' # pixel_count /\ pixel_count' >= max_pixels =>
            /\ pc' = "done"
            /\ returned' = Append(frames, current_frame')
            /\ frames' = returned']_vars
    /\ [][pc = "done" => UNCHANGED vars]_vars

\* the run stopped on the sample that reached the ceiling
C4_Witness ==
    /\ pc = "done"
    /\ max_pixels = 2
    /\ pixel_count = max_pixels
    /\ IsVecFor(line, color_id)
    /\ Len(returned) = 2

\* C5: at the end of the stream a non-empty current frame becomes the last
\* element of the output; an empty one adds nothing.
C5_EndOfStreamSeals ==
    /\ [][pc = "replay" /\ pc' = "final" => UNCHANGED <<frames, current_frame>>]_vars
    /\ [][pc = "final" =>
            /\ pc' = "done"
            /\ returned' = IF NonEmpty(current_frame)
                           THEN Append(frames, current_frame) ELSE frames]_vars

\* the stream ended below the ceiling with a frame open, which was returned
C5_Witness ==
    /\ pc = "done"
    /\ 0 < pixel_count /\ pixel_count < max_pixels
    /\ NonEmpty(current_frame)
    /\ returned[Len(returned)] = current_frame
    /\ prev_vsync = "0"

\* some mandatory role has no identifier in the directory
SomeMandatoryUnbound ==
    \E r \in MandatoryRoles : SigName(r) \notin DOMAIN signal_ids

C7_NonBinaryIgnored ==
    [][(/\ ReplayStep
        /\ \/ IsVecFor(line', color_id)
           \/ IsVecFor(line', x_id)
           \/ IsVecFor(line', y_id)
        /\ NonBinary(BitsOf(line')))
       => (/\ UNCHANGED <<current_state, current_frame, frames, pixel_count>>
           /\ pc' = "replay")]_vars

\* the identifier the header lines declare for the io_vga_ signal of each role
DeclaredIds ==
    [r \in MandatoryRoles \cup OptionalRoles |->
        CHOOSE id \in {split(l)[4] : l \in {h \in HeaderLines : Len(split(h)) >= 5}} :
            \E l \in HeaderLines :
                /\ Len(split(l)) >= 5
                /\ split(l)[1] = <<"$var">>
                /\ split(l)[4] = id
                /\ split(l)[5] = SigName(r)]

\* the directory holds io_vga_ names only, each role under the identifier of
\* its io_vga_ declaration
DirectoryResolved ==
    \A n \in DOMAIN signal_ids :
        /\ n[1] = "io_vga_"
        /\ \A r \in MandatoryRoles \cup OptionalRoles :
               n = SigName(r) => signal_ids[n] = DeclaredIds[r]

\* C8: the directory holds only io_vga_ names, each bound to the identifier
\* of its io_vga_ declaration; a declaration read by parse_header binds its
\* io_vga_ name to its identifier and leaves every other name as it was, a
\* look-alike without the prefix binds nothing; once parse_header has
\* stopped no line changes the directory.
C8_DirectoryFromPrefixedDecls ==
    /\ [][DirectoryResolved']_vars
    /\ [][ParseStep =>
            LET parts == split(line')
                decl  == Len(parts) >= 5 /\ parts[1] = <<"$var">>
            IN  \A r \in MandatoryRoles \cup OptionalRoles :
                    IF decl /\ parts[5] = SigName(r)
                    THEN Get(signal_ids', SigName(r)) = parts[4]
                    ELSE Get(signal_ids', SigName(r)) = Get(signal_ids, SigName(r))]_vars
    /\ [][pc # "parse_header" => signal_ids' = signal_ids]_vars

\* all six roles are bound and a late declaration of vsync was read
C8_Witness ==
    /\ pc = "replay"
    /\ line = LateDecl
    /\ DOMAIN signal_ids = {SigName(r) : r \in MandatoryRoles \cup OptionalRoles}
    /\ vsync_id = <<"v">>
    /\ hsync_id = <<"h">>

\* C9: a pixel is written only by a colour-bus change processed while the
\* snapshot's active-video is 1.  Any other replay step leaves the pixel
\* counter alone and either leaves frames and current frame alone or moves
\* the current frame to the output; a colour-bus change during blanking
\* changes none of them; active-video is the value of the last active-video
\* event.
C9_SampledOnlyWhenActive ==
    [][ReplayStep =>
          LET sample == IsVecFor(line', color_id) /\ current_state.active = "1"
          IN  /\ ~sample =>
                    /\ pixel_count' = pixel_count
                    /\ \/ frames' = frames /\ current_frame' = current_frame
                       \/ /\ frames' = Append(frames, current_frame)
                          /\ current_frame' = EmptyDict
                          /\ IsBitFor(line', vsync_id)
              /\ (IsVecFor(line', color_id) /\ current_state.active = "0") =>
                    UNCHANGED <<frames, current_frame, pixel_count>>
              /\ current_state'.active =
                    IF IsBitFor(line', active_id) THEN line'[1]
                    ELSE current_state.active]_vars

\* a colour-bus change was processed during blanking and stored nothing
C9_Witness ==
    /\ pc = "replay"
    /\ line = VecLine(<<"1">>, <<"c">>)
    /\ color_id = <<"c">>
    /\ current_state.active = "0"
    /\ current_state.vsync = "0"
    /\ pixel_count = 0
    /\ frames = <<>> /\ ~NonEmpty(current_frame)

\* C10 as claimed: every snapshot field follows the last well-formed change
\* of its signal: a single-bit change of hsync, vsync or active-video sets
\* that field to the bit, a multi-bit change of x or y that decodes sets
\* that field to the value.
C10_SnapshotFollowsEvents ==
    [][ReplayStep =>
          /\ IsBitFor(line', hsync_id) => current_state'.hsync = line'[1]
          /\ IsBitFor(line', vsync_id) => current_state'.vsync = line'[1]
          /\ IsBitFor(line', active_id) => current_state'.active = line'[1]
          /\ (IsVecFor(line', x_id) /\ ~DecodeRaises(BitsOf(line'))) =>
                 current_state'.x = DecodeBits(BitsOf(line'))
          /\ (IsVecFor(line', y_id) /\ ~DecodeRaises(BitsOf(line'))) =>
                 current_state'.y = DecodeBits(BitsOf(line'))]_vars

\* C11 as claimed: parse_header stops on the first line that holds the
\* end-of-header marker, and extract_frames starts the replay with the line
\* right after that line, whatever precedes the marker on it.
C11_PassesAgreeOnHeaderEnd ==
    /\ [][ParseStep => (pc' = "lookup" <=> contains(line', EndDefs))]_vars
    /\ [][(pc = "skip_header" /\ unread # EOF) => pc' = "replay"]_vars

\* fs is an initial part of gs
IsPrefix(fs, gs) == Len(fs) <= Len(gs) /\ SubSeq(gs, 1, Len(fs)) = fs

\* C12: the output sequence only grows at its end: every step keeps the
\* frames already sealed, in place and unmodified, and adds at most one frame
\* after them; a sample changes the current frame only; the returned
\* sequence is the output sequence.
C12_OutputAppendOnly ==
    /\ [][/\ IsPrefix(frames, frames')
          /\ Len(frames') <= Len(frames) + 1]_vars
    /\ [][ReplayStep /\ pixel_count' # pixel_count /\ pc' = "replay" =>
              frames' = frames]_vars
    /\ [][pc # "lookup" /\ pc' = "done" =>
              IsPrefix(frames, returned') /\ returned' = frames']_vars

\* two different frames were returned, the first sealed by a vsync edge
C12_Witness ==
    /\ pc = "done"
    /\ Len(returned) = 2
    /\ returned[1] # returned[2]
    /\ returned = frames

\* the 2-bit field of channel i (1 red, 2 green, 3 blue) in colour value w
ChannelField(w, i) == (w \div (4 ^ (3 - i))) % 4

\* C13: rrggbb_to_rgb gives (0,0,0) for 0 and (255,255,255) for 63; for
\* every 6-bit input each channel is in 0..255 and is the same for every
\* input with the same 2-bit field of that channel, whatever was decoded
\* before.
C13_DecodeByChannel ==
    rgb_out # <<>> =>
        /\ Len(rgb_out) = 3
        /\ rrggbb_in = 0 => rgb_out = <<0, 0, 0>>
        /\ rrggbb_in = 63 => rgb_out = <<255, 255, 255>>
        /\ \A i \in 1..3 :
              /\ rgb_out[i] \in 0..255
              /\ \A w \in ColourValues :
                     ChannelField(w, i) = ChannelField(rrggbb_in, i) =>
                         rrggbb_to_rgb(w)[i] = rgb_out[i]

\* the largest 6-bit value was decoded to white
C13_Witness == rrggbb_in = 63 /\ rgb_out = <<255, 255, 255>>

\* C14: a multi-bit change with an empty bit string decodes to 0: on x or
\* y it sets that coordinate to 0; on the colour bus with active-video 1 it
\* stores colour 0 at the current (x, y) and adds one to the pixel counter.
C14_EmptyBitsAreZero ==
    [][(ReplayStep /\ line' # <<>> /\ line'[1] = "b" /\ Len(split(line')) >= 2
        /\ BitsOf(line') = <<>>) =>
          /\ IsVecFor(line', x_id) => current_state'.x = 0
          /\ IsVecFor(line', y_id) => current_state'.y = 0
          /\ (IsVecFor(line', color_id) /\ current_state.active = "1") =>
                /\ <<current_state.x, current_state.y>> \in DOMAIN current_frame'
                /\ current_frame'[<<current_state.x, current_state.y>>] = 0
                /\ pixel_count' = pixel_count + 1]_vars

\* an empty colour value was sampled away from the origin as colour 0
C14_Witness ==
    /\ line = VecLine(<<>>, <<"c">>)
    /\ color_id = <<"c">>
    /\ current_state.active = "1"
    /\ current_state.x = -1
    /\ pixel_count = 1
    /\ current_frame = [p \in {<<-1, current_state.y>>} |-> 0]

\* the identifiers the directory binds to a role
BoundIds == {hsync_id, vsync_id, active_id, color_id, x_id, y_id} \ {None}

\* s (stripped) is a line the replay has no event for: blank, a timestamp,
\* a change of an identifier bound to no role, a multi-bit change without
\* identifier, or a line of no known shape
Ignorable(s) ==
    \/ s = <<>>
    \/ s[1] = "#"
    \/ s[1] \in {"0", "1"} /\ (Len(s) = 1 \/ strip(Tail(s)) \notin BoundIds)
    \/ s[1] = "b" /\ (Len(split(s)) < 2 \/ split(s)[2] \notin BoundIds)
    \/ s[1] \notin {"#", "0", "1", "b"}

\* C15: a timestamp, a blank line and every line that matches no event of a
\* bound signal leave the snapshot, the previous vsync, the current frame,
\* the output sequence and the pixel counter as they were, and the replay
\* goes on.
C15_OtherLinesIgnored ==
    [][(ReplayStep /\ Ignorable(line')) =>
          /\ UNCHANGED <<current_state, prev_vsync, current_frame, frames,
                         pixel_count, returned>>
          /\ pc' = "replay"]_vars

\* a single-bit change of an unbound identifier was read in mid-frame and
\* the replay is still going
C15_Witness ==
    /\ pc = "replay"
    /\ line = BitLine("1", <<"u">>)
    /\ <<"u">> \notin BoundIds
    /\ pixel_count = 1
    /\ NonEmpty(current_frame)
    /\ current_state.active = "1"

\* the header declared the four mandatory signals and no coordinate counter
NoCoordinateSignals ==
    DOMAIN signal_ids = {SigName(r) : r \in MandatoryRoles}

\* every pixel of the frame is at (0, 0)
AtOrigin(frame) == DOMAIN frame \subseteq {<<0, 0>>}

\* what C16 says of a state
OriginOnly ==
    (NoCoordinateSignals /\ pc \notin {"parse_header", "lookup"}) =>
        /\ stderr = <<>>
        /\ current_state.x = 0 /\ current_state.y = 0
        /\ AtOrigin(current_frame)
        /\ \A i \in 1..Len(frames) : DOMAIN frames[i] = {<<0, 0>>}
        /\ \A i \in 1..Len(returned) : DOMAIN returned[i] = {<<0, 0>>}

\* C16: with the four mandatory signals and neither x_pos nor y_pos declared
\* the extraction is no error and the replay runs; x and y stay 0, every
\* sample is stored at (0, 0), so every frame of the output holds the one
\* pixel (0, 0), and its value is that of the last sample before the seal.
C16_NoCoordinatesMeansOrigin ==
    /\ [][OriginOnly']_vars
    /\ [][(pc = "lookup" /\ NoCoordinateSignals) => pc' = "skip_header"]_vars
    /\ [][(NoCoordinateSignals /\ ReplayStep /\ pixel_count' # pixel_count) =>
              current_frame' = [p \in {<<0, 0>>} |-> DecodeBits(BitsOf(line'))]]_vars

\* two one-pixel frames were returned from a trace without coordinate signals
C16_Witness ==
    /\ pc = "done"
    /\ NoCoordinateSignals
    /\ Len(returned) = 2
    /\ pixel_count = 2
    /\ \A i \in 1..2 : DOMAIN returned[i] = {<<0, 0>>}

\* C17: once the mandatory signals are resolved the replay of a finite
\* trace reaches the return, and it is left in two ways only: by the end of
\* the stream (through the final seal), or at a colour sample that brings
\* the pixel counter to the ceiling; no other line ends it.
C17_ReplayTerminates ==
    /\ (pc = "skip_header") ~> (pc = "done")
    /\ [][pc = "replay" =>
            (\/ pc' = "replay"
             \/ pc' = "final" /\ UNCHANGED <<line, locals, returned>>
             \/ /\ pc' = "done"
                /\ IsVecFor(line', color_id)
                /\ current_state.active = "1"
                /\ pixel_count' = pixel_count + 1
                /\ pixel_count' >= max_pixels)]_vars
    /\ [][(pc \in {"skip_header", "skip_body"}) =>
            (pc' \in {"skip_body", "replay", "final"})]_vars
    /\ [][pc = "final" => pc' = "done"]_vars

\* the stream ended, below the ceiling, after a malformed colour value and
\* with nothing sampled
C17_Witness ==
    /\ pc = "done"
    /\ unread = NoLine
    /\ line = VecLine(<<"x">>, <<"c">>)
    /\ current_state.active = "1"
    /\ pixel_count = 0
    /\ max_pixels = 2
    /\ returned = <<>>

Unsigned(frame) ==
    \A p \in DOMAIN frame : p[1] >= 0 /\ p[2] >= 0 /\ frame[p] >= 0

\* C18: every stored value is unsigned: the snapshot's x and y, and every
\* coordinate and colour of the current frame and of every sealed frame,
\* are non-negative whatever bit strings the trace holds.
C18_StoredValuesUnsigned ==
    /\ current_state.x >= 0
    /\ current_state.y >= 0
    /\ Unsigned(current_frame)
    /\ \A i \in 1..Len(frames) : Unsigned(frames[i])
    /\ \A i \in 1..Len(returned) : Unsigned(returned[i])

RECURSIVE Total(_)
Total(fs) == IF fs = <<>> THEN 0
             ELSE Cardinality(DOMAIN Head(fs)) + Total(Tail(fs))

\* C19: for every pixel ceiling from 0 up, the number of accepted colour
\* samples is at most the ceiling, and so is the number of pixels over all
\* frames of the output.
C19_AtMostCeilingSamples ==
    /\ pixel_count <= max_pixels
    /\ Total(returned) <= max_pixels

\* pixels held: in the sealed frames and the current frame while the call
\* runs, in the output once it has returned
Held == IF pc = "done" THEN Total(returned)
        ELSE Total(frames) + Cardinality(DOMAIN current_frame)

\* C20: the pixels held never outnumber the pixel counter; an accepted
\* sample adds one to the counter and one to the pixels held unless its
\* coordinate is already in the current frame, and every other step,
\* a frame boundary included, leaves both as they are.
C20_HeldAtMostCounted ==
    /\ [][Held' <= pixel_count']_vars
    /\ [][pixel_count' \in {pixel_count, pixel_count + 1}]_vars
    /\ [][pixel_count' = pixel_count => Held' = Held]_vars
    /\ [][pixel_count' # pixel_count =>
            Held' = IF <<current_state.x, current_state.y>>
                          \in DOMAIN current_frame
                    THEN Held ELSE Held + 1]_vars
    /\ [][Len(frames') > Len(frames) =>
            (pixel_count' = pixel_count \/ pc' = "done")]_vars

\* two samples at one coordinate of one frame: both counted, one held
C20_Witness ==
    /\ pc = "done"
    /\ pixel_count = 2
    /\ Len(returned) = 1
    /\ Held = 1

====
